---- MODULE Spec2Model ----
(***************************************************************************)
(* Discord outbound adapter: delivery-path selection (webhook or bot API)  *)
(* and the ordered multi-part webhook transport.                           *)
(*                                                                         *)
(* Strings are sequences of tokens (a token stands for one character or    *)
(* for an indivisible run of characters).  The JavaScript value undefined  *)
(* (and null, for string-typed values) is the reserved sequence            *)
(* `undefined'; null for object-typed values is the record `null'.         *)
(***************************************************************************)
EXTENDS Integers, Sequences, FiniteSets, TLC

undefined == <<"undefined">>
null == [null |-> TRUE]

(* JavaScript truthiness of a string-or-undefined value. *)
Truthy(s) == s # undefined /\ s # <<>>

IsSpace(ch) == ch \in {" ", "\t", "\n"}

RECURSIVE TrimStart(_)
TrimStart(s) ==
  IF s = <<>> THEN <<>>
  ELSE IF IsSpace(Head(s)) THEN TrimStart(Tail(s)) ELSE s

RECURSIVE TrimEnd(_)
TrimEnd(s) ==
  IF s = <<>> THEN <<>>
  ELSE IF IsSpace(s[Len(s)]) THEN TrimEnd(SubSeq(s, 1, Len(s) - 1)) ELSE s

(* String.prototype.trim *)
Trim(s) == TrimEnd(TrimStart(s))

(* String.prototype.startsWith *)
StartsWith(s, p) == Len(s) >= Len(p) /\ SubSeq(s, 1, Len(p)) = p

(* String.prototype.slice(n) *)
Slice(s, n) == SubSeq(s, n + 1, Len(s))

----------------------------------------------------------------------------
(* Bounds of the model. *)

\* the chunker returns at most MaxChunks chunks for a send that runs alone
MaxChunks == 3

\* and at most MaxConcurrentChunks chunks for each of two concurrent sends
MaxConcurrentChunks == 2

\* a profile document has at most MaxLines lines
MaxLines == 3

\* program constants
SnowflakeMin == 17
SnowflakeMax == 20
ChannelPrefixLen == 8

----------------------------------------------------------------------------
(* Address Resolver                                                        *)

ChannelPrefix == <<"c", "h", "a", "n", "n", "e", "l", ":">>

IsDigit(ch) == ch \in {"0", "1", "2", "3", "4", "5", "6", "7", "8", "9"}

(* /^\d{17,20}$/.test(s) *)
IsSnowflake(s) ==
  /\ Len(s) >= SnowflakeMin
  /\ Len(s) <= SnowflakeMax
  /\ \A i \in 1..Len(s) : IsDigit(s[i])

(* a faulty variant: the remainder after the prefix is not trimmed *)
extractChannelIdUntrimmed(to) ==
  LET trimmed == Trim(to) IN
  IF StartsWith(trimmed, ChannelPrefix) THEN Slice(trimmed, ChannelPrefixLen)
  ELSE IF IsSnowflake(trimmed) THEN trimmed
  ELSE undefined

extractChannelId(to) ==
  LET trimmed == Trim(to) IN
  IF StartsWith(trimmed, ChannelPrefix) THEN Trim(Slice(trimmed, ChannelPrefixLen))
  ELSE IF IsSnowflake(trimmed) THEN trimmed
  ELSE undefined

----------------------------------------------------------------------------
(* Webhook Configuration Lookup                                            *)
(* A configuration is a record; cfg.channels?.discord?.guilds, when        *)
(* present, is the field `guilds': the guild configs in the order          *)
(* Object.values enumerates them.  A guild config's `channels', when       *)
(* present, is a function from channel ids to channel configs              *)
(* [webhook |-> url or undefined].                                         *)

HasGuilds(config) == "guilds" \in DOMAIN config

ChannelWebhook(guildConfig, channelId) ==
  IF "channels" \notin DOMAIN guildConfig THEN undefined
  ELSE IF channelId \in DOMAIN guildConfig.channels
       THEN guildConfig.channels[channelId].webhook
       ELSE undefined

RECURSIVE ScanGuildsLast(_, _)
(* a faulty variant: a later guild's webhook replaces an earlier one's *)
ScanGuildsLast(guilds, channelId) ==
  IF guilds = <<>> THEN undefined
  ELSE IF Truthy(ScanGuildsLast(Tail(guilds), channelId))
       THEN ScanGuildsLast(Tail(guilds), channelId)
       ELSE IF Truthy(ChannelWebhook(Head(guilds), channelId))
            THEN ChannelWebhook(Head(guilds), channelId)
            ELSE undefined

RECURSIVE ScanGuilds(_, _)
ScanGuilds(guilds, channelId) ==
  IF guilds = <<>> THEN undefined
  ELSE IF Truthy(ChannelWebhook(Head(guilds), channelId))
       THEN ChannelWebhook(Head(guilds), channelId)
       ELSE ScanGuilds(Tail(guilds), channelId)

resolveWebhookUrl(config, channelId) ==
  IF ~HasGuilds(config) THEN undefined
  ELSE ScanGuilds(config.guilds, channelId)

----------------------------------------------------------------------------
(* Agent Identity Resolver                                                 *)
(* A profile document is the sequence of its lines (content.split), a      *)
(* line a sequence of tokens.  A path is the sequence of its segments.     *)

NonWordTokens == {" ", "\t", "-", "**", ":**", "#", "<fire>", "<ghost>", "/"}

(* \w+ over one token *)
IsWord(tok) == tok \notin NonWordTokens

(* String.prototype.toLowerCase on a label token *)
toLowerCase(tok) ==
  CASE tok \in {"Name", "NAME", "name"} -> "name"
    [] tok \in {"Emoji", "emoji"} -> "emoji"
    [] tok \in {"Creature", "creature"} -> "creature"
    [] tok \in {"Vibe", "vibe"} -> "vibe"
    [] tok \in {"Avatar", "avatar"} -> "avatar"
    [] OTHER -> tok

RECURSIVE WordRun(_)
WordRun(s) ==
  IF s = <<>> \/ ~IsWord(Head(s)) THEN <<>>
  ELSE <<Head(s)>> \o WordRun(Tail(s))

NoMatch == [matched |-> FALSE]

(* line.match(/^\s*-\s*\*\*(\w+):\*\*\s*(.+)$/) *)
MatchLine(line) ==
  LET s1 == TrimStart(line) IN
  IF s1 = <<>> \/ Head(s1) # "-" THEN NoMatch
  ELSE
    LET s2 == TrimStart(Tail(s1)) IN
    IF s2 = <<>> \/ Head(s2) # "**" THEN NoMatch
    ELSE
      LET label == WordRun(Tail(s2))
          s3 == Slice(Tail(s2), Len(label))
      IN
      IF label = <<>> \/ s3 = <<>> \/ Head(s3) # ":**" THEN NoMatch
      ELSE
        LET rest == Tail(s3) IN
        IF rest = <<>> THEN NoMatch
        ELSE [matched |-> TRUE,
              field |-> label,
              value |-> IF TrimStart(rest) = <<>>
                        THEN <<rest[Len(rest)]>>
                        ELSE TrimStart(rest)]

NoFields ==
  [name |-> undefined, emoji |-> undefined, creature |-> undefined,
   vibe |-> undefined, avatar |-> undefined]

(* a faulty variant: the first occurrence of a field wins *)
ParseLineFirstWins(acc, line) ==
  LET m == MatchLine(line) IN
  IF ~m.matched THEN acc
  ELSE
    LET trimmedValue == Trim(m.value)
        field == IF Len(m.field) = 1 THEN toLowerCase(m.field[1]) ELSE "?"
    IN
    IF field \in DOMAIN NoFields /\ acc[field] = undefined
    THEN [acc EXCEPT ![field] = trimmedValue]
    ELSE acc

(* one iteration of the loop over the lines *)
ParseLine(acc, line) ==
  LET m == MatchLine(line) IN
  IF ~m.matched THEN acc
  ELSE
    LET trimmedValue == Trim(m.value)
        field == IF Len(m.field) = 1 THEN toLowerCase(m.field[1]) ELSE "?"
    IN
    IF field \in DOMAIN NoFields
    THEN [acc EXCEPT ![field] = trimmedValue]
    ELSE acc

RECURSIVE ParseLines(_, _)
ParseLines(acc, lines) ==
  IF lines = <<>> THEN acc
  ELSE ParseLines(ParseLine(acc, Head(lines)), Tail(lines))

parseIdentityMd(content) ==
  LET fields == ParseLines(NoFields, content) IN
  IF ~Truthy(fields.name) THEN null ELSE fields

(* path.join: empty segments vanish *)
join(a, b) == a \o b

DefaultWorkspace == <<"/home/clawd", "workspace">>

(* what readFile does with a path: it resolves to the content or rejects   *)
Readable(content) == [readable |-> TRUE, content |-> content]

Unreadable(code) == [readable |-> FALSE, error |-> code]

(* The agent workspaces on disk: path of a profile document |-> what a     *)
(* read of it gives.  A path outside the domain does not exist (ENOENT).   *)
Files ==
  (<<"/home/u", "workspace", "ember", "IDENTITY.md">> :> Readable(
      << <<"#", " ", "IDENTITY">>,
         <<"-", " ", "**", "Name", ":**", " ", "Ember">>,
         <<"-", " ", "**", "Emoji", ":**", " ", "<fire>">> >>))
  @@
  (<<"/home/u", "workspace", "ghost", "IDENTITY.md">> :> Readable(
      << <<"-", " ", "**", "Emoji", ":**", " ", "<ghost>">>,
         <<"-", " ", "**", "Name", ":**", " ">> >>))
  @@
  (<<"/home/u", "workspace", "torn", "IDENTITY.md">> :> Unreadable("EIO"))
  @@
  (<<"/home/clawd", "workspace", "ember", "IDENTITY.md">> :> Readable(
      << <<"-", " ", "**", "name", ":**", " ", "Clawd", " ">>,
         <<"-", " ", "**", "Avatar", ":**", " ", "https://cdn/clawd.png">> >>))
  @@
  (<<"/home/clawd", "workspace", "ghost", "IDENTITY.md">> :> Unreadable("EACCES"))
  @@
  (<<"/srv/agents", "ember", "IDENTITY.md">> :> Readable(
      << <<"-", " ", "**", "Name", ":**", " ", "Override">> >>))

(* loadAgentIdentity: any read failure yields null *)
loadAgentIdentity(workspaceDir) ==
  LET identityPath == join(workspaceDir, <<"IDENTITY.md">>) IN
  IF identityPath \in DOMAIN Files /\ Files[identityPath].readable
  THEN parseIdentityMd(Files[identityPath].content)
  ELSE null

TypeError == [throw |-> "TypeError"]

(* the workspace directory resolveAgentIdentityById computes, with         *)
(* process.env.HOME = home; join(undefined, ...) throws a TypeError        *)
WorkspaceDir(agentId, baseWorkspaceDir, home) ==
  LET chosen == IF baseWorkspaceDir # undefined THEN baseWorkspaceDir ELSE home IN
  IF Truthy(chosen) /\ home = undefined THEN [threw |-> TRUE]
  ELSE
    LET base == IF Truthy(chosen) THEN join(home, <<"workspace">>)
                ELSE DefaultWorkspace
    IN [threw |-> FALSE, dir |-> join(base, agentId)]

resolveAgentIdentityById(agentId, baseWorkspaceDir, home) ==
  LET workspace == WorkspaceDir(agentId, baseWorkspaceDir, home) IN
  IF workspace.threw THEN TypeError
  ELSE loadAgentIdentity(workspace.dir)

(* a faulty variant: the profile's avatar goes before the override *)
toWebhookIdentityProfileFirst(identity, avatarUrlOverride) ==
  LET displayName == IF Truthy(identity.emoji)
                     THEN identity.emoji \o <<" ">> \o identity.name
                     ELSE identity.name
  IN [username |-> displayName,
      avatarUrl |-> IF identity.avatar # undefined
                    THEN identity.avatar
                    ELSE avatarUrlOverride]

toWebhookIdentity(identity, avatarUrlOverride) ==
  LET displayName == IF Truthy(identity.emoji)
                     THEN identity.emoji \o <<" ">> \o identity.name
                     ELSE identity.name
  IN [username |-> displayName,
      avatarUrl |-> IF avatarUrlOverride # undefined
                    THEN avatarUrlOverride
                    ELSE identity.avatar]

resolveWebhookIdentity(agentId, baseWorkspaceDir, avatarUrl, home) ==
  LET identity == resolveAgentIdentityById(agentId, baseWorkspaceDir, home) IN
  IF identity = TypeError THEN TypeError
  ELSE IF identity = null THEN null
  ELSE toWebhookIdentity(identity, avatarUrl)

----------------------------------------------------------------------------
(* Inputs                                                                  *)

Hook1 == <<"https://", "discord.com/api/webhooks/1/tok">>
Hook2 == <<"https://", "discord.com/api/webhooks/2/tok">>
BadUrl == <<"not a url">>

(* new URL(s) throws unless s parses as an absolute URL *)
IsValidUrl(s) == s # undefined /\ s # <<>> /\ Head(s) = "https://"

CfgGuilds ==
  [guilds |->
    << [id |-> "g0"],
       [id |-> "g1",
        channels |-> (<<"7">> :> [webhook |-> <<>>])
                     @@ (<<"8">> :> [webhook |-> undefined])],
       [id |-> "g2",
        channels |-> (<<"7">> :> [webhook |-> Hook1])
                     @@ (<<"9">> :> [webhook |-> BadUrl])],
       [id |-> "g3",
        channels |-> (<<"7">> :> [webhook |-> Hook2])] >>]

CfgNoGuilds == [channels |-> "none"]

Configs == {CfgGuilds, CfgNoGuilds}

Homes == {<<"/home/u">>, undefined}

(* process.env.HOME may also be set to the empty string *)
IdentityHomes == Homes \cup {<<>>}

Addresses ==
  { ChannelPrefix \o <<"7">>,
    <<" ">> \o ChannelPrefix \o <<" ", "9">>,
    ChannelPrefix \o <<"8">>,
    <<"u", "s", "e", "r", ":", "1">> }

Texts == { <<>>, <<" ">>, <<"a", " ", "b">> }

AgentIds == { undefined, <<"ember">>, <<"ghost">> }

MediaUrls == { undefined, <<"https://", "cdn/cat.png">> }

ReplyToIds == { undefined, <<"r1">> }

AccountIds == { undefined, <<"acct">> }

Deps == { null, [sendDiscord |-> "injected"] }

OutboundContexts ==
  [to : Addresses, text : Texts, mediaUrl : MediaUrls, agentId : AgentIds,
   replyToId : ReplyToIds, accountId : AccountIds, deps : Deps]

(* the contexts of the sends of the concurrent scenario: text sends to one *)
(* destination, with and without an acting agent                           *)
ConcurrentContexts ==
  [to : {ChannelPrefix \o <<"7">>}, text : {<<"a", " ", "b">>},
   mediaUrl : {undefined}, agentId : {<<"ember">>, undefined},
   replyToId : {undefined}, accountId : {undefined}, deps : {null}]

Identities ==
  { null,
    [username |-> <<"Bot">>, avatarUrl |-> undefined],
    [username |-> undefined, avatarUrl |-> <<"https://", "cdn/a.png">>] }

EmbedLists == { undefined, <<>>, <<"embed1">> }

WebhookSendOptionsSet ==
  [webhookUrl : {Hook1, BadUrl}, identity : Identities,
   threadId : {undefined, <<"t1">>}, embeds : EmbedLists]

Polls == { <<"poll1">> }

Calls == {1, 2}

(* "single": one send with any inputs; "concurrent": two text sends to one  *)
(* destination; "lookup": one send over the address shapes and the         *)
(* configuration shapes; "identity": one call of an exported function of   *)
(* the identity resolver                                                   *)
Scenarios == {"single", "concurrent", "lookup", "identity"}

(* a bare numeric address of n digits *)
Digits(n) == [i \in 1..n |-> "1"]

Snowflake == Digits(SnowflakeMin)

LookupAddresses ==
  { ChannelPrefix \o <<"7">>,
    <<" ">> \o ChannelPrefix \o <<" ", "9", " ">>,
    ChannelPrefix,
    ChannelPrefix \o <<" ">>,
    <<"C", "h", "a", "n", "n", "e", "l", ":", "7">>,
    <<"7">>,
    Snowflake,
    <<"\t">> \o Snowflake \o <<" ">>,
    Digits(SnowflakeMin - 1),
    Digits(SnowflakeMax),
    Digits(SnowflakeMax + 1),
    [Snowflake EXCEPT ![3] = "x"],
    <<"u", "s", "e", "r", ":", "1">> }

(* the guilds of CfgGuilds enumerated in the opposite order *)
CfgReversed ==
  [guilds |-> [i \in 1..Len(CfgGuilds.guilds) |->
                 CfgGuilds.guilds[Len(CfgGuilds.guilds) + 1 - i]]]

CfgSnowflake ==
  [guilds |->
    << [id |-> "g0"],
       [id |-> "g4",
        channels |-> (Snowflake :> [webhook |-> Hook1])
                     @@ (Digits(SnowflakeMax) :> [webhook |-> Hook2])] >>]

CfgEmptyGuilds == [guilds |-> <<>>]

LookupConfigs == Configs \cup {CfgReversed, CfgSnowflake, CfgEmptyGuilds}

LookupContexts ==
  [to : LookupAddresses, text : {<<"a">>},
   mediaUrl : {<<"https://", "cdn/cat.png">>}, agentId : {<<"ember">>, undefined},
   replyToId : {undefined}, accountId : {undefined}, deps : {null}]

(* what loadWebMedia resolves to *)
LoadedMedia ==
  { [fileName |-> undefined, mimeType |-> undefined],
    [fileName |-> <<"cat.png">>, mimeType |-> <<"image/png">>] }

(* how a fetch settles: a success status, a non-success status with a      *)
(* readable or an unreadable body, or a rejection                          *)
FetchOutcomes ==
  { [kind |-> "ok"],
    [kind |-> "http", status |-> "429", body |-> <<"rate limited">>],
    [kind |-> "http", status |-> "500", body |-> undefined],
    [kind |-> "reject"] }

----------------------------------------------------------------------------
(* State                                                                   *)

VARIABLES
  scenario,  \* one send alone, or two sends running concurrently
  cfg,       \* the configuration root (read-only)
  home,      \* process.env.HOME (read-only)
  call,      \* the state of each call
  posts,     \* the requests the webhook endpoints have received, in order
  botCalls   \* the invocations of the bot-API client, in order

vars == <<scenario, cfg, home, call, posts, botCalls>>

(* the calls of the scenario, and the inputs its sends are drawn from *)
Callers == IF scenario = "concurrent" THEN Calls ELSE {1}

TextContexts ==
  CASE scenario = "single" -> OutboundContexts
    [] scenario = "concurrent" -> ConcurrentContexts
    [] scenario = "lookup" -> LookupContexts
    [] OTHER -> {}

MediaContexts ==
  CASE scenario = "single" -> OutboundContexts
    [] scenario = "lookup" -> LookupContexts
    [] OTHER -> {}

PollContexts == IF scenario = "single" THEN OutboundContexts ELSE {}

SendOptions == IF scenario = "single" THEN WebhookSendOptionsSet ELSE {}

(* Chunker (./chunk.js): any ordered list of chunks, blank ones included,  *)
(* up to the bound of the scenario.                                        *)
ChunkValues == { <<"a">>, <<" ">> }

ChunkBound == IF scenario = "single" THEN MaxChunks ELSE MaxConcurrentChunks

chunkDiscordTextWithMode(text) ==
  UNION { [1..n -> ChunkValues] : n \in 0..ChunkBound }

Pending == [status |-> "pending"]

(* A call: where it stands (pc), the operation and its inputs, the         *)
(* collaborators it has invoked so far, the locals of the transport, and   *)
(* how it ended.                                                           *)
IdleCall ==
  [pc |-> "idle", op |-> "none", ctx |-> null, channelId |-> undefined,
   webhookUrl |-> undefined,
   invoked |-> {}, transport |-> "none",
   text |-> undefined, mediaUrl |-> undefined, opts |-> null,
   chunks |-> <<>>, pos |-> 0, lastResult |-> null, result |-> null,
   readPath |-> undefined, outcome |-> Pending]

Init ==
  /\ scenario \in Scenarios
  /\ cfg \in CASE scenario = "single" -> Configs
               [] scenario = "lookup" -> LookupConfigs
               [] scenario = "identity" -> {CfgNoGuilds}
               [] OTHER -> {CfgGuilds}
  /\ home \in CASE scenario = "single" -> Homes
                [] scenario = "identity" -> IdentityHomes
                [] OTHER -> {<<"/home/u">>}
  /\ call = [c \in Calls |-> IdleCall]
  /\ posts = <<>>
  /\ botCalls = <<>>

Thrown(rec, err) ==
  [rec EXCEPT !.pc = "done", !.outcome = [status |-> "threw", error |-> err]]

Returned(rec, val) ==
  [rec EXCEPT !.pc = "done", !.outcome = [status |-> "returned", value |-> val]]

Invoking(rec, names) == [rec EXCEPT !.invoked = @ \cup names]

IsOrchestrated(rec) == rec.op \in {"sendText", "sendMedia", "sendPoll"}

(* { channel: "discord", ...result } *)
Tagged(result) ==
  [channel |-> "discord", messageId |-> result.messageId,
   channelId |-> result.channelId]

ValidationError ==
  [name |-> "Error",
   message |-> <<"Message must be non-empty for Discord webhook sends">>]

EmptyResultError ==
  [name |-> "Error",
   message |-> <<"Discord webhook send failed (empty chunk result)">>]

InvalidUrlError == [name |-> "TypeError", message |-> <<"Invalid URL">>]

FetchFailedError == [name |-> "TypeError", message |-> <<"fetch failed">>]

MediaLoadError == [name |-> "Error", message |-> <<"media load failed">>]

BotApiError == [name |-> "Error", message |-> <<"bot API failed">>]

PathError == [name |-> "TypeError", message |-> <<"path must be a string">>]

----------------------------------------------------------------------------
(* Delivery Orchestrator: the fallback                                     *)

(* deps?.sendDiscord ?? sendMessageDiscord *)
Sender(ctx) ==
  IF ctx.deps # null THEN "deps.sendDiscord" ELSE "sendMessageDiscord"

(* a faulty variant: the reply target is dropped *)
TextFallbackArgsNoReply(ctx) ==
  [to |-> ctx.to, text |-> ctx.text,
   opts |-> [verbose |-> FALSE, replyTo |-> undefined,
             accountId |-> ctx.accountId]]

TextFallbackArgs(ctx) ==
  [to |-> ctx.to, text |-> ctx.text,
   opts |-> [verbose |-> FALSE, replyTo |-> ctx.replyToId,
             accountId |-> ctx.accountId]]

MediaFallbackArgs(ctx) ==
  [to |-> ctx.to, text |-> ctx.text,
   opts |-> [verbose |-> FALSE, mediaUrl |-> ctx.mediaUrl,
             replyTo |-> ctx.replyToId, accountId |-> ctx.accountId]]

(* the fallback: the bot-API sender is invoked and awaited *)
Fallback(c, rec) ==
  /\ call' = [call EXCEPT ![c] =
       [Invoking(rec, {"sendDiscord"}) EXCEPT !.pc = "bot"]]
  /\ botCalls' = Append(botCalls,
       [call |-> c, fn |-> Sender(rec.ctx),
        args |-> IF rec.op = "sendText" THEN TextFallbackArgs(rec.ctx)
                 ELSE MediaFallbackArgs(rec.ctx)])
  /\ posts' = posts

----------------------------------------------------------------------------
(* Webhook Transport: the requests                                         *)

RequestUrl(opts) ==
  [base |-> opts.webhookUrl,
   wait |-> <<"true">>,
   thread_id |-> IF Truthy(opts.threadId) THEN opts.threadId ELSE undefined]

IdentityField(opts, f) ==
  IF opts.identity # null /\ Truthy(opts.identity[f])
  THEN opts.identity[f] ELSE undefined

EmbedsField(opts) ==
  IF opts.embeds # undefined /\ Len(opts.embeds) > 0
  THEN opts.embeds ELSE undefined

(* the JSON body of postWebhookMessage; undefined marks an absent key *)
JsonBody(content, opts) ==
  [content |-> content,
   username |-> IdentityField(opts, "username"),
   avatar_url |-> IdentityField(opts, "avatarUrl"),
   embeds |-> EmbedsField(opts)]

(* payload_json of postWebhookMessageWithFile *)
FilePayload(content, opts) ==
  [content |-> IF Truthy(content) THEN content ELSE undefined,
   username |-> IdentityField(opts, "username"),
   avatar_url |-> IdentityField(opts, "avatarUrl"),
   embeds |-> EmbedsField(opts)]

FilePart(media) ==
  [field |-> "files[0]",
   filename |-> IF media.fileName # undefined THEN media.fileName
                ELSE <<"upload">>,
   type |-> IF media.mimeType # undefined THEN media.mimeType
            ELSE <<"application/octet-stream">>]

NoFile == [field |-> "none"]

NoResponse == [kind |-> "none"]

(* the options of the post for a chunk of a text send *)
TextChunkOptions(opts, isFirst) ==
  [opts EXCEPT !.embeds = IF isFirst THEN opts.embeds ELSE undefined]

(* the options of the file post of a media send *)
FileOptions(opts) == opts

(* the options of a follow-up text post of a media send *)
FollowUpOptions(opts) == opts

(* postWebhookMessage up to its await of fetch: call c, left in state rec, *)
(* posts chunk i with the options o; log is the requests received so far   *)
postWebhookMessage(c, rec, i, o, log) ==
  /\ IF ~IsValidUrl(o.webhookUrl)
     THEN /\ call' = [call EXCEPT ![c] = Thrown(rec, InvalidUrlError)]
          /\ posts' = log
     ELSE /\ call' = [call EXCEPT ![c] = [rec EXCEPT !.pc = "post", !.pos = i]]
          /\ posts' = Append(log,
               [call |-> c, kind |-> "json", url |-> RequestUrl(o),
                body |-> JsonBody(rec.chunks[i], o), file |-> NoFile,
                chunk |-> i, status |-> "pending", response |-> NoResponse])
  /\ botCalls' = botCalls

(* postWebhookMessageWithFile up to its await of fetch *)
postWebhookMessageWithFile(c, rec, content, media, o, log) ==
  /\ IF ~IsValidUrl(o.webhookUrl)
     THEN /\ call' = [call EXCEPT ![c] = Thrown(rec, InvalidUrlError)]
          /\ posts' = log
     ELSE /\ call' = [call EXCEPT ![c] = [rec EXCEPT !.pc = "post", !.pos = 1]]
          /\ posts' = Append(log,
               [call |-> c, kind |-> "multipart", url |-> RequestUrl(o),
                body |-> FilePayload(content, o), file |-> FilePart(media),
                chunk |-> 1, status |-> "pending", response |-> NoResponse])
  /\ botCalls' = botCalls

----------------------------------------------------------------------------
(* Webhook Transport: the sends                                            *)

(* a faulty variant: only the empty text is rejected *)
IsEmptyText(text) == ~Truthy(text)

(* !text.trim() *)
IsBlank(text) == ~Truthy(Trim(text))

(* a faulty variant: an empty chunk list is left empty *)
NoFallbackChunk(chunks, text) == chunks

(* if (!chunks.length && text) chunks.push(text) *)
WithFallbackChunk(chunks, text) ==
  IF chunks = <<>> /\ Truthy(text) THEN <<text>> ELSE chunks

(* a throw before the first await of the transport reaches its caller *)
Rejected(c, rec, err) ==
  /\ call' = [call EXCEPT ![c] = Thrown(rec, err)]
  /\ posts' = posts
  /\ botCalls' = botCalls

(* sendDiscordWebhookText up to its first await, entered by call c in      *)
(* state rec                                                               *)
WebhookText(c, rec, text, opts) ==
  LET entered == [Invoking(rec, {"sendDiscordWebhookText"}) EXCEPT
                    !.transport = "text", !.text = text, !.opts = opts]
  IN
  IF IsBlank(text)
  THEN Rejected(c, entered, ValidationError)
  ELSE \E out \in chunkDiscordTextWithMode(text) :
         LET chunks == WithFallbackChunk(out, text)
             started == [entered EXCEPT !.chunks = chunks]
         IN IF chunks = <<>>
            THEN Rejected(c, started, EmptyResultError)
            ELSE postWebhookMessage(c, started, 1, TextChunkOptions(opts, TRUE),
                                    posts)

(* sendDiscordWebhookMedia up to its await of loadWebMedia *)
WebhookMedia(c, rec, text, mediaUrl, opts) ==
  /\ call' = [call EXCEPT ![c] =
       [Invoking(rec, {"sendDiscordWebhookMedia"}) EXCEPT
          !.pc = "media", !.transport = "media", !.text = text,
          !.mediaUrl = mediaUrl, !.opts = opts]]
  /\ posts' = posts
  /\ botCalls' = botCalls

(* a faulty variant: blank follow-up chunks are posted too *)
NextFollowUpAny(chunks, i) == IF i < Len(chunks) THEN i + 1 ELSE 0

(* the next chunk after position i that the follow-up loop posts, 0 if none *)
NextFollowUp(chunks, i) ==
  LET rest == { j \in (i + 1)..Len(chunks) : ~IsBlank(chunks[j]) } IN
  IF rest = {} THEN 0
  ELSE CHOOSE j \in rest : \A k \in rest : j <= k

(* the exported sendDiscordWebhookText, called directly *)
sendDiscordWebhookText(c) ==
  /\ call[c].pc = "idle"
  /\ \E text \in Texts, opts \in SendOptions :
       WebhookText(c, [call[c] EXCEPT !.op = "webhookText"], text, opts)
  /\ UNCHANGED <<scenario, cfg, home>>

(* the exported sendDiscordWebhookMedia, called directly *)
sendDiscordWebhookMedia(c) ==
  /\ call[c].pc = "idle"
  /\ \E text \in Texts, opts \in SendOptions :
       WebhookMedia(c, [call[c] EXCEPT !.op = "webhookMedia"], text,
                    <<"https://", "cdn/cat.png">>, opts)
  /\ UNCHANGED <<scenario, cfg, home>>

(* sendDiscordWebhookMedia resumes: loadWebMedia has settled *)
MediaLoaded(c) ==
  /\ call[c].pc = "media"
  /\ \/ Rejected(c, call[c], MediaLoadError)
     \/ \E media \in LoadedMedia :
        \E out \in IF Truthy(call[c].text)
                   THEN chunkDiscordTextWithMode(call[c].text)
                   ELSE {<<>>} :
          LET chunks == WithFallbackChunk(out, call[c].text)
              caption == IF chunks # <<>> THEN chunks[1] ELSE <<>>
          IN postWebhookMessageWithFile(c, [call[c] EXCEPT !.chunks = chunks],
                                        caption, media,
                                        FileOptions(call[c].opts), posts)
  /\ UNCHANGED <<scenario, cfg, home>>

(* the post of call c that is in flight *)
InFlight(c) ==
  CHOOSE p \in 1..Len(posts) : posts[p].call = c /\ posts[p].status = "pending"

MessageId(p) == <<"msg", p>>

ChannelOf(url) == <<"chan", url.base[Len(url.base)]>>

(* { messageId: result.id, channelId: result.channel_id } *)
SendResult(p) ==
  [messageId |-> MessageId(p), channelId |-> ChannelOf(posts[p].url)]

(* what the caller of the transport returns for its result *)
Receipt(rec, result) == IF IsOrchestrated(rec) THEN Tagged(result) ELSE result

(* a faulty variant: no placeholder for an unreadable body *)
HttpErrorRawBody(kind, response) ==
  [name |-> "Error",
   message |->
     <<IF kind = "multipart" THEN "Discord webhook file upload failed ("
       ELSE "Discord webhook failed (",
       response.status, "): ">>
     \o response.body]

(* new Error(`Discord webhook failed (${response.status}): ${errorText}`) *)
HttpError(kind, response) ==
  [name |-> "Error",
   message |->
     <<IF kind = "multipart" THEN "Discord webhook file upload failed ("
       ELSE "Discord webhook failed (",
       response.status, "): ">>
     \o (IF response.body # undefined THEN response.body
         ELSE <<"unknown error">>)]

(* a faulty variant: the first result is kept *)
KeepFirstResult(lastResult, result) ==
  IF lastResult = null THEN result ELSE lastResult

(* lastResult = await postWebhookMessage(...) *)
KeepResult(lastResult, result) == result

(* a faulty variant: the next chunk waits until no post of another call is *)
(* in flight                                                               *)
TextNextQueued(c, rec, result, log) ==
  LET got == [rec EXCEPT !.lastResult = KeepResult(rec.lastResult, result)] IN
  IF rec.pos < Len(rec.chunks)
  THEN /\ \A p \in 1..Len(log) : log[p].call # c => log[p].status # "pending"
       /\ postWebhookMessage(c, got, rec.pos + 1,
                             TextChunkOptions(rec.opts, FALSE), log)
  ELSE /\ call' = [call EXCEPT ![c] =
            IF got.lastResult = null THEN Thrown(got, EmptyResultError)
            ELSE Returned(got, Receipt(got, got.lastResult))]
       /\ posts' = log
       /\ botCalls' = botCalls

(* the loop of sendDiscordWebhookText after the post of chunk pos succeeded *)
TextNext(c, rec, result, log) ==
  LET got == [rec EXCEPT !.lastResult = KeepResult(rec.lastResult, result)] IN
  IF rec.pos < Len(rec.chunks)
  THEN postWebhookMessage(c, got, rec.pos + 1,
                          TextChunkOptions(rec.opts, FALSE), log)
  ELSE /\ call' = [call EXCEPT ![c] =
            IF got.lastResult = null THEN Thrown(got, EmptyResultError)
            ELSE Returned(got, Receipt(got, got.lastResult))]
       /\ posts' = log
       /\ botCalls' = botCalls

(* sendDiscordWebhookMedia after the file post or a follow-up succeeded *)
MediaNext(c, rec, kind, result, log) ==
  LET got == IF kind = "multipart" THEN [rec EXCEPT !.result = result] ELSE rec
      j == NextFollowUp(rec.chunks, rec.pos)
  IN
  IF j # 0
  THEN postWebhookMessage(c, got, j, FollowUpOptions(rec.opts), log)
  ELSE /\ call' = [call EXCEPT ![c] = Returned(got, Receipt(got, got.result))]
       /\ posts' = log
       /\ botCalls' = botCalls

(* a faulty variant: a failed follow-up is swallowed and the file result *)
(* returned                                                             *)
PostFailedKeepsFile(c, rec, err, log) ==
  /\ call' = [call EXCEPT ![c] =
       IF rec.transport = "media" /\ rec.result # null
       THEN Returned(rec, Receipt(rec, rec.result))
       ELSE Thrown(rec, err)]
  /\ posts' = log
  /\ botCalls' = botCalls

(* a faulty variant: the orchestrator catches the failure and falls back *)
PostFailedFallsBack(c, rec, err, log) ==
  IF rec.op \in {"sendText", "sendMedia"}
  THEN /\ call' = [call EXCEPT ![c] =
            [Invoking(rec, {"sendDiscord"}) EXCEPT !.pc = "bot"]]
       /\ botCalls' = Append(botCalls,
            [call |-> c, fn |-> Sender(rec.ctx),
             args |-> IF rec.op = "sendText" THEN TextFallbackArgs(rec.ctx)
                      ELSE MediaFallbackArgs(rec.ctx)])
       /\ posts' = log
  ELSE /\ call' = [call EXCEPT ![c] = Thrown(rec, err)]
       /\ posts' = log
       /\ botCalls' = botCalls

(* a post that failed: the error leaves the send and its caller uncaught *)
PostFailed(c, rec, err, log) ==
  /\ call' = [call EXCEPT ![c] = Thrown(rec, err)]
  /\ posts' = log
  /\ botCalls' = botCalls

(* the fetch of call c settles and the send goes on to its next await *)
PostResponse(c) ==
  /\ call[c].pc = "post"
  /\ LET p == InFlight(c) IN
     \E response \in FetchOutcomes :
       LET settled == [posts EXCEPT ![p].response = response,
                                    ![p].status =
                                       CASE response.kind = "ok" -> "ok"
                                         [] response.kind = "http" -> "rejected"
                                         [] OTHER -> "lost"]
       IN
       IF response.kind = "ok"
       THEN IF call[c].transport = "text"
            THEN TextNext(c, call[c], SendResult(p), settled)
            ELSE MediaNext(c, call[c], posts[p].kind, SendResult(p), settled)
       ELSE PostFailed(c, call[c],
                       IF response.kind = "http"
                       THEN HttpError(posts[p].kind, response)
                       ELSE FetchFailedError,
                       settled)
  /\ UNCHANGED <<scenario, cfg, home>>

----------------------------------------------------------------------------
(* Delivery Orchestrator                                                   *)

(* const webhookUrl = channelId ? resolveWebhookUrl(cfg, channelId) : undefined *)
WebhookUrlFor(config, to) ==
  LET channelId == extractChannelId(to) IN
  IF Truthy(channelId) THEN resolveWebhookUrl(config, channelId) ELSE undefined

(* the collaborators the resolution of the endpoint invokes *)
LookupInvokes(to) ==
  IF Truthy(extractChannelId(to))
  THEN {"extractChannelId", "resolveWebhookUrl"}
  ELSE {"extractChannelId"}

(* if (webhookUrl && agentId) *)
TextWantsWebhook(webhookUrl, ctx) == Truthy(webhookUrl) /\ Truthy(ctx.agentId)

(* a faulty variant: the media reference is not required *)
MediaWantsWebhookAnyMedia(webhookUrl, ctx) ==
  Truthy(webhookUrl) /\ Truthy(ctx.agentId)

(* if (webhookUrl && agentId && mediaUrl) *)
MediaWantsWebhook(webhookUrl, ctx) ==
  Truthy(webhookUrl) /\ Truthy(ctx.agentId) /\ Truthy(ctx.mediaUrl)

(* the orchestrator suspends on resolveWebhookIdentity(agentId) *)
AwaitIdentity(c, rec) ==
  /\ call' = [call EXCEPT ![c] =
       [Invoking(rec, {"resolveWebhookIdentity"}) EXCEPT !.pc = "identity"]]
  /\ posts' = posts
  /\ botCalls' = botCalls

(* sendText: sendTextWithWebhookFallback up to its first await *)
sendTextWithWebhookFallback(c) ==
  /\ call[c].pc = "idle"
  /\ \E ctx \in TextContexts :
       LET webhookUrl == WebhookUrlFor(cfg, ctx.to)
           rec == [Invoking(call[c], LookupInvokes(ctx.to)) EXCEPT
                     !.op = "sendText", !.ctx = ctx,
                     !.channelId = extractChannelId(ctx.to),
                     !.webhookUrl = webhookUrl]
       IN IF TextWantsWebhook(webhookUrl, ctx)
          THEN AwaitIdentity(c, rec)
          ELSE Fallback(c, rec)
  /\ UNCHANGED <<scenario, cfg, home>>

(* sendMedia: sendMediaWithWebhookFallback up to its first await *)
sendMediaWithWebhookFallback(c) ==
  /\ call[c].pc = "idle"
  /\ \E ctx \in MediaContexts :
       LET webhookUrl == WebhookUrlFor(cfg, ctx.to)
           rec == [Invoking(call[c], LookupInvokes(ctx.to)) EXCEPT
                     !.op = "sendMedia", !.ctx = ctx,
                     !.channelId = extractChannelId(ctx.to),
                     !.webhookUrl = webhookUrl]
       IN IF MediaWantsWebhook(webhookUrl, ctx)
          THEN AwaitIdentity(c, rec)
          ELSE Fallback(c, rec)
  /\ UNCHANGED <<scenario, cfg, home>>

(* a faulty variant: the identity is not handed on *)
OrchestratorOptionsNoIdentity(webhookUrl, identity) ==
  [webhookUrl |-> webhookUrl, identity |-> null,
   threadId |-> undefined, embeds |-> undefined]

(* the options the orchestrator hands the transport *)
OrchestratorOptions(webhookUrl, identity) ==
  [webhookUrl |-> webhookUrl, identity |-> identity,
   threadId |-> undefined, embeds |-> undefined]

(* the arguments of the resolveWebhookIdentity call that the call awaits:  *)
(* the orchestrator passes the agent id alone                              *)
IdentityArgs(rec) ==
  IF rec.op = "resolveWebhookIdentity" THEN rec.ctx
  ELSE [agentId |-> rec.ctx.agentId, baseWorkspaceDir |-> undefined,
        avatarUrl |-> undefined]

(* the path handed to readFile, undefined when none is read *)
ReadPath(args) ==
  LET workspace == WorkspaceDir(args.agentId, args.baseWorkspaceDir, home) IN
  IF workspace.threw THEN undefined
  ELSE join(workspace.dir, <<"IDENTITY.md">>)

(* a faulty variant: resolution shares a resource with the transport and   *)
(* gives up while a post is in flight                                      *)
IdentityResolvedWhenFree(c) ==
  /\ call[c].pc = "identity"
  /\ LET args == IdentityArgs(call[c])
         rec == [call[c] EXCEPT !.readPath = ReadPath(args)]
         identity == IF \E p \in 1..Len(posts) : posts[p].status = "pending"
                     THEN null
                     ELSE resolveWebhookIdentity(args.agentId,
                                                 args.baseWorkspaceDir,
                                                 args.avatarUrl, home)
     IN IF identity = TypeError THEN Rejected(c, rec, PathError)
        ELSE IF rec.op = "resolveWebhookIdentity"
        THEN /\ call' = [call EXCEPT ![c] = Returned(rec, identity)]
             /\ posts' = posts
             /\ botCalls' = botCalls
        ELSE IF identity # null
        THEN IF rec.op = "sendText"
             THEN WebhookText(c, rec, rec.ctx.text,
                              OrchestratorOptions(rec.webhookUrl, identity))
             ELSE WebhookMedia(c, rec, rec.ctx.text, rec.ctx.mediaUrl,
                               OrchestratorOptions(rec.webhookUrl, identity))
        ELSE Fallback(c, rec)
  /\ UNCHANGED <<scenario, cfg, home>>

(* resolveWebhookIdentity has settled: its caller resumes *)
IdentityResolved(c) ==
  /\ call[c].pc = "identity"
  /\ LET args == IdentityArgs(call[c])
         rec == [call[c] EXCEPT !.readPath = ReadPath(args)]
         identity == resolveWebhookIdentity(args.agentId, args.baseWorkspaceDir,
                                            args.avatarUrl, home)
     IN IF identity = TypeError THEN Rejected(c, rec, PathError)
        ELSE IF rec.op = "resolveWebhookIdentity"
        THEN /\ call' = [call EXCEPT ![c] = Returned(rec, identity)]
             /\ posts' = posts
             /\ botCalls' = botCalls
        ELSE IF identity # null
        THEN IF rec.op = "sendText"
             THEN WebhookText(c, rec, rec.ctx.text,
                              OrchestratorOptions(rec.webhookUrl, identity))
             ELSE WebhookMedia(c, rec, rec.ctx.text, rec.ctx.mediaUrl,
                               OrchestratorOptions(rec.webhookUrl, identity))
        ELSE Fallback(c, rec)
  /\ UNCHANGED <<scenario, cfg, home>>

----------------------------------------------------------------------------
(* Agent Identity Resolver: its exported functions, called directly        *)

DirectAgentIds == { <<"ember">>, <<"ghost">>, <<"torn">>, <<"nobody">> }

BaseDirs == { undefined, <<>>, <<"/srv/agents">> }

AvatarUrls == { undefined, <<>>, <<"https://", "cdn/override.png">> }

IdentityCalls ==
  [agentId : DirectAgentIds, baseWorkspaceDir : BaseDirs, avatarUrl : AvatarUrls]

(* the lines profile documents are made of *)
Lines ==
  { <<>>,
    <<"#", " ", "IDENTITY">>,
    <<"-", " ", "**", "Name", ":**", " ", "Ember">>,
    <<"-", "**", "NAME", ":**", "Bolt", " ">>,
    <<"-", " ", "**", "Name", ":**", " ">>,
    <<"-", " ", "**", "Name", ":**">>,
    <<"**", "Name", ":**", " ", "Nope">>,
    <<"-", " ", "**", "Full", " ", "Name", ":**", " ", "Nope">>,
    <<"-", " ", "**", "Role", ":**", " ", "scout">>,
    <<"-", " ", "**", "Emoji", ":**", " ", "<fire>">>,
    <<" ", "-", "\t", "**", "avatar", ":**", " ", "https://cdn/a.png", " ">>,
    <<"-", " ", "**", "Vibe", ":**", " ", "calm", " ", "-", " ", "mostly">> }

Documents == UNION { [1..n -> Lines] : n \in 1..MaxLines }

AgentIdentities ==
  [name : {<<"Ember">>}, emoji : {undefined, <<>>, <<"<fire>">>},
   creature : {undefined}, vibe : {undefined, <<"calm">>},
   avatar : {undefined, <<"https://cdn/a.png">>}]

(* parseIdentityMd(content) *)
ParseIdentityMdCalled(c) ==
  /\ scenario = "identity"
  /\ call[c].pc = "idle"
  /\ \E content \in Documents :
       call' = [call EXCEPT ![c] =
         Returned([call[c] EXCEPT !.op = "parseIdentityMd",
                                  !.ctx = [content |-> content]],
                  parseIdentityMd(content))]
  /\ UNCHANGED <<scenario, cfg, home, posts, botCalls>>

(* toWebhookIdentity(identity, avatarUrlOverride) *)
ToWebhookIdentityCalled(c) ==
  /\ scenario = "identity"
  /\ call[c].pc = "idle"
  /\ \E identity \in AgentIdentities, avatarUrlOverride \in AvatarUrls :
       call' = [call EXCEPT ![c] =
         Returned([call[c] EXCEPT !.op = "toWebhookIdentity",
                                  !.ctx = [identity |-> identity,
                                           avatarUrl |-> avatarUrlOverride]],
                  toWebhookIdentity(identity, avatarUrlOverride))]
  /\ UNCHANGED <<scenario, cfg, home, posts, botCalls>>

(* resolveWebhookIdentity(agentId, opts) up to its await *)
ResolveWebhookIdentityCalled(c) ==
  /\ scenario = "identity"
  /\ call[c].pc = "idle"
  /\ \E args \in IdentityCalls :
       AwaitIdentity(c, [call[c] EXCEPT !.op = "resolveWebhookIdentity",
                                        !.ctx = args])
  /\ UNCHANGED <<scenario, cfg, home>>

PollArgs(ctx, poll) ==
  [to |-> ctx.to, poll |-> poll, opts |-> [accountId |-> ctx.accountId]]

(* a faulty variant: a poll goes to the webhook of its destination *)
sendPollViaWebhook(c) ==
  /\ call[c].pc = "idle"
  /\ \E ctx \in PollContexts, poll \in Polls :
       LET webhookUrl == WebhookUrlFor(cfg, ctx.to)
           rec == [Invoking(call[c], LookupInvokes(ctx.to)) EXCEPT
                     !.op = "sendPoll", !.ctx = ctx, !.webhookUrl = webhookUrl]
       IN IF Truthy(webhookUrl)
          THEN WebhookText(c, rec, poll, OrchestratorOptions(webhookUrl, null))
          ELSE /\ call' = [call EXCEPT ![c] =
                    [Invoking(rec, {"sendPollDiscord"}) EXCEPT !.pc = "bot"]]
               /\ botCalls' = Append(botCalls,
                    [call |-> c, fn |-> "sendPollDiscord",
                     args |-> PollArgs(ctx, poll)])
               /\ posts' = posts
  /\ UNCHANGED <<scenario, cfg, home>>

(* sendPoll: sendPollDiscord is invoked and awaited *)
sendPoll(c) ==
  /\ call[c].pc = "idle"
  /\ \E ctx \in PollContexts, poll \in Polls :
       /\ call' = [call EXCEPT ![c] =
            [Invoking(call[c], {"sendPollDiscord"}) EXCEPT
               !.pc = "bot", !.op = "sendPoll", !.ctx = ctx]]
       /\ botCalls' = Append(botCalls,
            [call |-> c, fn |-> "sendPollDiscord", args |-> PollArgs(ctx, poll)])
  /\ UNCHANGED <<scenario, cfg, home, posts>>

(* the invocation of the bot-API client that call c awaits *)
Awaited(c) == CHOOSE b \in 1..Len(botCalls) : botCalls[b].call = c

BotResult(b) == [messageId |-> <<"bot", b>>, channelId |-> <<"chan", "bot">>]

(* return { channel: "discord", ...result }; sendPoll returns the result *)
BotReceipt(rec, result) ==
  IF rec.op = "sendPoll" THEN result ELSE Tagged(result)

(* the bot-API client settles *)
BotResponse(c) ==
  /\ call[c].pc = "bot"
  /\ \/ call' = [call EXCEPT ![c] = Thrown(call[c], BotApiError)]
     \/ call' = [call EXCEPT ![c] =
          Returned(call[c], BotReceipt(call[c], BotResult(Awaited(c))))]
  /\ UNCHANGED <<scenario, cfg, home, posts, botCalls>>

Next ==
  \/ \E c \in Callers : sendTextWithWebhookFallback(c)
  \/ \E c \in Callers : sendMediaWithWebhookFallback(c)
  \/ \E c \in Callers : sendPoll(c)
  \/ \E c \in Callers : IdentityResolved(c)
  \/ \E c \in Callers : sendDiscordWebhookText(c)
  \/ \E c \in Callers : sendDiscordWebhookMedia(c)
  \/ \E c \in Callers : MediaLoaded(c)
  \/ \E c \in Callers : PostResponse(c)
  \/ \E c \in Callers : BotResponse(c)
  \/ \E c \in Callers : ParseIdentityMdCalled(c)
  \/ \E c \in Callers : ToWebhookIdentityCalled(c)
  \/ \E c \in Callers : ResolveWebhookIdentityCalled(c)

Spec == Init /\ [][Next]_vars

----------------------------------------------------------------------------
(* Observations used by the properties                                     *)

RECURSIVE Indexes(_, _, _)
(* the positions i..Len(log) of log whose entry belongs to call c, in order *)
Indexes(log, c, i) ==
  IF i > Len(log) THEN <<>>
  ELSE IF log[i].call = c THEN <<i>> \o Indexes(log, c, i + 1)
  ELSE Indexes(log, c, i + 1)

(* the requests of call c at the webhook endpoints, in the order received *)
PostsOf(c) == Indexes(posts, c, 1)

(* the invocations of the bot-API client by call c *)
BotCallsOf(c) == Indexes(botCalls, c, 1)

UsedWebhook(c) ==
  call[c].invoked \cap {"sendDiscordWebhookText", "sendDiscordWebhookMedia"} # {}

IsSend(c) == call[c].op \in {"sendText", "sendMedia"}

(* the three conditions of webhook delivery (four for a media send),      *)
(* from the inputs of the call alone                                       *)
EndpointResolves(c) == Truthy(WebhookUrlFor(cfg, call[c].ctx.to))

AgentPresent(c) == Truthy(call[c].ctx.agentId)

IdentityResolves(c) ==
  resolveWebhookIdentity(call[c].ctx.agentId, undefined, undefined, home)
    \notin {null, TypeError}

MediaPresent(c) == call[c].op = "sendMedia" => Truthy(call[c].ctx.mediaUrl)

Eligible(c) ==
  EndpointResolves(c) /\ AgentPresent(c) /\ IdentityResolves(c) /\ MediaPresent(c)

----------------------------------------------------------------------------
(* C1: a sendText or sendMedia call invokes the webhook transport only if  *)
(* an endpoint resolves for the address, an agent id is present, the agent *)
(* resolves to an identity and, for sendMedia, a media reference is        *)
(* present; if one of them is missing the call never posts to a webhook    *)
(* and invokes the bot-API sender, exactly once by the time it ends.       *)
C1_WebhookOnlyIfResolved ==
  \A c \in Calls :
    IsSend(c) =>
      /\ UsedWebhook(c) \/ PostsOf(c) # <<>> => Eligible(c)
      /\ ~Eligible(c) =>
           /\ ~UsedWebhook(c)
           /\ PostsOf(c) = <<>>
           /\ Len(BotCallsOf(c)) <= 1
           /\ call[c].pc \in {"bot", "done"} => Len(BotCallsOf(c)) = 1

(* a send to an address with an endpoint but without an agent id has ended *)
(* through the bot API                                                     *)
C1_Witness ==
  \E c \in Calls :
    /\ IsSend(c) /\ call[c].pc = "done"
    /\ EndpointResolves(c) /\ ~AgentPresent(c)
    /\ Len(BotCallsOf(c)) = 1 /\ ~UsedWebhook(c)

(* C2: the posts of a webhook text send are the chunks c1..cn in order,    *)
(* each started only after the one before it succeeded, whatever other     *)
(* sends do meanwhile; the send returns only after all n posts succeeded,  *)
(* and returns the result of the post of cn.                               *)
C2_TextChunksInOrder ==
  \A c \in Calls :
    call[c].transport = "text" =>
      LET P == PostsOf(c)
          chunks == call[c].chunks
      IN
      /\ Len(P) <= Len(chunks)
      /\ \A i \in 1..Len(P) :
           /\ posts[P[i]].kind = "json"
           /\ posts[P[i]].chunk = i
           /\ posts[P[i]].body.content = chunks[i]
           /\ i < Len(P) => posts[P[i]].status = "ok"
      /\ call[c].outcome.status = "returned" =>
           /\ Len(P) = Len(chunks) /\ Len(P) >= 1
           /\ \A i \in 1..Len(P) : posts[P[i]].status = "ok"
           /\ call[c].outcome.value.messageId = MessageId(P[Len(P)])
           /\ call[c].outcome.value.channelId = ChannelOf(posts[P[Len(P)]].url)

(* a text send of two chunks has returned, with a post of another send     *)
(* received between its two posts                                          *)
C2_Witness ==
  \E c \in Calls :
    LET P == PostsOf(c) IN
    /\ call[c].transport = "text"
    /\ call[c].outcome.status = "returned"
    /\ Len(call[c].chunks) = 2
    /\ call[c].chunks[1] # call[c].chunks[2]
    /\ \E q \in 1..Len(posts) : posts[q].call # c /\ P[1] < q /\ q < P[2]

(* C3: when the post of chunk k of a text send gets a non-success status,  *)
(* no later chunk is posted, the chunks before k stay delivered and are    *)
(* not posted again, and the send fails with an error that carries the     *)
(* status code and the body text, or a placeholder for an unreadable body. *)
C3_TextFailureAborts ==
  \A c \in Calls :
    call[c].transport = "text" =>
      LET P == PostsOf(c) IN
      \A k \in 1..Len(P) :
        posts[P[k]].status = "rejected" =>
          /\ k = Len(P)
          /\ \A j \in 1..(k - 1) :
               posts[P[j]].status = "ok" /\ posts[P[j]].chunk = j
          /\ call[c].pc = "done"
          /\ call[c].outcome.status = "threw"
          /\ LET message == call[c].outcome.error.message
                 response == posts[P[k]].response
             IN /\ message[1] = "Discord webhook failed ("
                /\ message[2] = response.status
                /\ SubSeq(message, 4, Len(message)) =
                     IF response.body # undefined THEN response.body
                     ELSE <<"unknown error">>

(* the second of three chunks was refused with an unreadable body *)
C3_Witness ==
  \E c \in Calls :
    LET P == PostsOf(c) IN
    /\ call[c].transport = "text"
    /\ Len(call[c].chunks) = 3
    /\ Len(P) = 2
    /\ posts[P[2]].status = "rejected"
    /\ posts[P[2]].response.body = undefined

(* C4: embeds are carried only by the first post of a text send or by the *)
(* file post of a media send; no later chunk and no follow-up text post    *)
(* carries embeds.                                                         *)
C4_EmbedsOnlyOnFirstUnit ==
  \A p \in 1..Len(posts) :
    posts[p].body.embeds # undefined =>
      LET c == posts[p].call IN
      \/ call[c].transport = "text" /\ PostsOf(c)[1] = p
      \/ call[c].transport = "media" /\ posts[p].kind = "multipart"

RECURSIVE NonBlankFrom(_, _)
(* the positions j..Len(chunks) of the non-blank chunks, in order *)
NonBlankFrom(chunks, j) ==
  IF j > Len(chunks) THEN <<>>
  ELSE (IF Trim(chunks[j]) # <<>> THEN <<j>> ELSE <<>>)
       \o NonBlankFrom(chunks, j + 1)

(* C5: a webhook media send posts the file once, first, with c1 as its     *)
(* caption (no caption content when there is none), then one text post per *)
(* non-blank chunk among c2..cn in order, each after the post before it    *)
(* succeeded; blank follow-ups are not posted; the send returns the result *)
(* of the file post.                                                       *)
C5_MediaFileThenFollowUps ==
  \A c \in Calls :
    call[c].transport = "media" =>
      LET P == PostsOf(c)
          chunks == call[c].chunks
          F == NonBlankFrom(chunks, 2)
      IN
      /\ Len(P) <= 1 + Len(F)
      /\ \A i \in 1..Len(P) :
           /\ i = 1 =>
                /\ posts[P[i]].kind = "multipart"
                /\ posts[P[i]].body.content =
                     IF chunks = <<>> \/ chunks[1] = <<>> THEN undefined
                     ELSE chunks[1]
                /\ call[c].text = <<>> => posts[P[i]].body.content = undefined
           /\ i > 1 =>
                /\ posts[P[i]].kind = "json"
                /\ posts[P[i]].chunk = F[i - 1]
                /\ posts[P[i]].body.content = chunks[F[i - 1]]
           /\ i < Len(P) => posts[P[i]].status = "ok"
      /\ call[c].outcome.status = "returned" =>
           /\ Len(P) = 1 + Len(F)
           /\ \A i \in 1..Len(P) : posts[P[i]].status = "ok"
           /\ call[c].outcome.value.messageId = MessageId(P[1])
           /\ call[c].outcome.value.channelId = ChannelOf(posts[P[1]].url)

(* a media send whose caption split into a chunk, a blank chunk and a      *)
(* chunk has returned after two posts                                      *)
C5_Witness ==
  \E c \in Calls :
    /\ call[c].transport = "media"
    /\ call[c].outcome.status = "returned"
    /\ call[c].chunks = << <<"a">>, <<" ">>, <<"a">> >>
    /\ Len(PostsOf(c)) = 2

(* C6: when the file post of a media send succeeded and a follow-up post   *)
(* fails, the file message stays delivered, no later follow-up is posted   *)
(* and the send fails instead of returning the file result.                *)
C6_MediaFollowUpFailure ==
  \A c \in Calls :
    call[c].transport = "media" =>
      LET P == PostsOf(c) IN
      \A k \in 2..Len(P) :
        posts[P[k]].status \in {"rejected", "lost"} =>
          /\ posts[P[1]].kind = "multipart"
          /\ posts[P[1]].status = "ok"
          /\ k = Len(P)
          /\ call[c].pc = "done"
          /\ call[c].outcome.status = "threw"

(* the first of two follow-ups was refused after the file was delivered *)
C6_Witness ==
  \E c \in Calls :
    LET P == PostsOf(c) IN
    /\ call[c].transport = "media"
    /\ Len(NonBlankFrom(call[c].chunks, 2)) = 2
    /\ Len(P) = 2
    /\ posts[P[1]].status = "ok"
    /\ posts[P[2]].status = "rejected"

(* C7: a sendPoll call invokes the bot-API poll client, once, and nothing  *)
(* else: no webhook post, no configuration lookup, no identity resolution. *)
C7_PollsUseBotApi ==
  \A c \in Calls :
    call[c].op = "sendPoll" =>
      LET B == BotCallsOf(c) IN
      /\ call[c].invoked = {"sendPollDiscord"}
      /\ call[c].pc \in {"bot", "done"}
      /\ PostsOf(c) = <<>>
      /\ Len(B) = 1
      /\ botCalls[B[1]].fn = "sendPollDiscord"
      /\ botCalls[B[1]].args.to = call[c].ctx.to

(* a poll for a destination and an agent that a text send would deliver    *)
(* by webhook has been delivered                                           *)
C7_Witness ==
  \E c \in Calls :
    /\ call[c].op = "sendPoll"
    /\ call[c].outcome.status = "returned"
    /\ EndpointResolves(c) /\ AgentPresent(c) /\ IdentityResolves(c)

(* C8: a send that has entered the webhook transport never invokes the     *)
(* bot-API sender, so no call uses both transports, and a validation or    *)
(* transport error of the webhook transport ends the call with that error. *)
C8_NoFallbackAfterWebhook ==
  \A c \in Calls :
    IsSend(c) =>
      LET P == PostsOf(c) IN
      /\ UsedWebhook(c) => BotCallsOf(c) = <<>> /\ "sendDiscord" \notin call[c].invoked
      /\ ~(P # <<>> /\ BotCallsOf(c) # <<>>)
      /\ \A i \in 1..Len(P) :
           posts[P[i]].status \in {"rejected", "lost"} =>
             /\ call[c].pc = "done"
             /\ call[c].outcome =
                  [status |-> "threw",
                   error |-> IF posts[P[i]].status = "rejected"
                             THEN HttpError(posts[P[i]].kind, posts[P[i]].response)
                             ELSE FetchFailedError]
      /\ call[c].transport = "text" /\ Trim(call[c].text) = <<>> =>
           /\ call[c].pc = "done"
           /\ call[c].outcome = [status |-> "threw", error |-> ValidationError]

(* an orchestrated send has failed on a refused webhook post *)
C8_Witness ==
  \E c \in Calls :
    LET P == PostsOf(c) IN
    /\ IsSend(c) /\ UsedWebhook(c)
    /\ P # <<>> /\ posts[P[Len(P)]].status = "rejected"
    /\ call[c].outcome.status = "threw"
    /\ BotCallsOf(c) = <<>>

(* C9: a webhook text send of an empty or whitespace-only text fails with  *)
(* the validation error before any post, and the orchestrator's sendText   *)
(* that chose the webhook path fails with it and does not fall back.       *)
C9_BlankTextRejected ==
  \A c \in Calls :
    "sendDiscordWebhookText" \in call[c].invoked /\ Trim(call[c].text) = <<>> =>
      /\ call[c].pc = "done"
      /\ call[c].outcome = [status |-> "threw", error |-> ValidationError]
      /\ PostsOf(c) = <<>>
      /\ BotCallsOf(c) = <<>>

(* sendText chose the webhook path for a whitespace-only text and failed *)
C9_Witness ==
  \E c \in Calls :
    /\ call[c].op = "sendText"
    /\ call[c].ctx.text = <<" ">>
    /\ "sendDiscordWebhookText" \in call[c].invoked
    /\ call[c].outcome.status = "threw"

(* C10: on the fallback path the bot-API sender, the injected one when     *)
(* there is one, gets the address and the text of the context unchanged,   *)
(* its reply target and account selector (and media reference for          *)
(* sendMedia), and the receipt is the sender's result tagged "discord".    *)
C10_FallbackPassesContext ==
  \A c \in Calls :
    IsSend(c) /\ "sendDiscord" \in call[c].invoked =>
      LET B == BotCallsOf(c)
          ctx == call[c].ctx
      IN
      /\ Len(B) = 1
      /\ botCalls[B[1]].fn =
           IF ctx.deps = null THEN "sendMessageDiscord" ELSE "deps.sendDiscord"
      /\ botCalls[B[1]].args.to = ctx.to
      /\ botCalls[B[1]].args.text = ctx.text
      /\ botCalls[B[1]].args.opts.replyTo = ctx.replyToId
      /\ botCalls[B[1]].args.opts.accountId = ctx.accountId
      /\ call[c].op = "sendMedia" =>
           botCalls[B[1]].args.opts.mediaUrl = ctx.mediaUrl
      /\ call[c].outcome.status = "returned" =>
           call[c].outcome.value =
             [channel |-> "discord", messageId |-> <<"bot", B[1]>>,
              channelId |-> <<"chan", "bot">>]

(* a fallback text send with a reply target, an account selector and an    *)
(* injected sender has returned                                            *)
C10_Witness ==
  \E c \in Calls :
    /\ call[c].op = "sendText"
    /\ "sendDiscord" \in call[c].invoked
    /\ call[c].ctx.replyToId = <<"r1">>
    /\ call[c].ctx.accountId = <<"acct">>
    /\ call[c].ctx.deps # null
    /\ call[c].outcome.status = "returned"

(* C11: calls are not serialized: whatever the other call is doing, an     *)
(* idle caller can start a send, and a text send whose post of a chunk     *)
(* other than the last is in flight can issue its next post as its next    *)
(* step, which leaves the record of the other call untouched.  So a post   *)
(* of one call may reach the endpoint between two chunk posts of another.  *)
C11_NoSerialization ==
  \A c \in Callers :
    /\ call[c].pc = "idle" /\ TextContexts # {} =>
         ENABLED sendTextWithWebhookFallback(c)
    /\ /\ call[c].pc = "post" /\ call[c].transport = "text"
       /\ call[c].pos < Len(call[c].chunks)
       => ENABLED (/\ PostResponse(c)
                   /\ Len(posts') = Len(posts) + 1
                   /\ \A d \in Calls \ {c} : call'[d] = call[d])

(* two sends to one endpoint have returned and their chunks alternate at   *)
(* the endpoint                                                            *)
C11_Witness ==
  /\ \A c \in Calls : call[c].outcome.status = "returned"
  /\ Len(posts) = 4
  /\ \A p \in 1..4 : posts[p].url.base = Hook1
  /\ posts[1].call = posts[3].call
  /\ posts[2].call = posts[4].call
  /\ posts[1].call # posts[2].call

(* C12: the agent identity resolver reads the profile <base>/<agentId>/    *)
(* IDENTITY.md where base is the base-directory override when one is       *)
(* supplied, else <HOME>/workspace when HOME is set, else the fixed        *)
(* default, for every combination of override and HOME.                    *)
C12_BasePrecedence ==
  \A c \in Calls :
    call[c].op = "resolveWebhookIdentity" /\ call[c].pc = "done" =>
      LET override == call[c].ctx.baseWorkspaceDir
          base == IF Truthy(override) THEN override
                  ELSE IF Truthy(home) THEN home \o <<"workspace">>
                  ELSE <<"/home/clawd", "workspace">>
      IN call[c].readPath = base \o call[c].ctx.agentId \o <<"IDENTITY.md">>

(* C13: identity resolution never raises: resolveWebhookIdentity returns   *)
(* (none, when the profile cannot be read) for every agent id, every       *)
(* combination of base-directory override and HOME and every outcome of    *)
(* the read, and an orchestrator send whose profile is unreadable goes on  *)
(* to the bot-API sender instead of failing.                               *)
C13_IdentityNeverRaises ==
  \A c \in Calls :
    /\ call[c].op = "resolveWebhookIdentity" /\ call[c].pc = "done" =>
         /\ call[c].outcome.status = "returned"
         /\ \/ call[c].readPath \notin DOMAIN Files
            \/ ~Files[call[c].readPath].readable
            => call[c].outcome.value = null
    /\ /\ IsSend(c) /\ "resolveWebhookIdentity" \in call[c].invoked
       /\ call[c].pc # "identity" /\ ~IdentityResolves(c)
       => /\ "sendDiscord" \in call[c].invoked
          /\ Len(BotCallsOf(c)) = 1
          /\ ~UsedWebhook(c)

(* C14 as stated: the address resolver returns the trimmed remainder after *)
(* the prefix when the address begins with the literal "channel:", the     *)
(* address itself when it is a string of 17 to 20 digits, and none for     *)
(* every other address; with none or an empty channel id the orchestrator  *)
(* skips the webhook lookup and uses the bot API.                          *)
C14_AddressShapes ==
  \A c \in Calls :
    IsSend(c) =>
      LET to == call[c].ctx.to
          numeric == /\ Len(to) \in 17..20
                     /\ \A i \in 1..Len(to) :
                          to[i] \in {"0", "1", "2", "3", "4", "5", "6", "7", "8", "9"}
          expected == IF StartsWith(to, <<"c", "h", "a", "n", "n", "e", "l", ":">>)
                      THEN Trim(SubSeq(to, 9, Len(to)))
                      ELSE IF numeric THEN to ELSE undefined
      IN
      /\ call[c].channelId = expected
      /\ expected \in {undefined, <<>>} =>
           /\ "resolveWebhookUrl" \notin call[c].invoked
           /\ call[c].webhookUrl = undefined
           /\ ~UsedWebhook(c) /\ PostsOf(c) = <<>>
           /\ "sendDiscord" \in call[c].invoked

(* C14, amended: the same of the trimmed address: the resolver trims the   *)
(* address, then returns the trimmed remainder after a leading "channel:", *)
(* the trimmed address when it is a string of 17 to 20 digits, and none    *)
(* otherwise; with none or an empty channel id the orchestrator skips the  *)
(* webhook lookup and uses the bot API.                                    *)
C14_TrimmedAddressShapes ==
  \A c \in Calls :
    IsSend(c) =>
      LET to == Trim(call[c].ctx.to)
          numeric == /\ Len(to) \in 17..20
                     /\ \A i \in 1..Len(to) :
                          to[i] \in {"0", "1", "2", "3", "4", "5", "6", "7", "8", "9"}
          expected == IF StartsWith(to, <<"c", "h", "a", "n", "n", "e", "l", ":">>)
                      THEN Trim(SubSeq(to, 9, Len(to)))
                      ELSE IF numeric THEN to ELSE undefined
      IN
      /\ call[c].channelId = expected
      /\ expected \in {undefined, <<>>} =>
           /\ "resolveWebhookUrl" \notin call[c].invoked
           /\ call[c].webhookUrl = undefined
           /\ ~UsedWebhook(c) /\ PostsOf(c) = <<>>
           /\ "sendDiscord" \in call[c].invoked
      /\ expected \notin {undefined, <<>>} =>
           "resolveWebhookUrl" \in call[c].invoked

(* a send to a 17-digit address padded with white space has returned after *)
(* posting to the webhook of that channel                                  *)
C14_Witness ==
  \E c \in Calls :
    /\ IsSend(c) /\ call[c].outcome.status = "returned"
    /\ call[c].ctx.to # Trim(call[c].ctx.to)
    /\ call[c].channelId = Snowflake
    /\ PostsOf(c) # <<>>

(* C15: the webhook lookup returns the webhook of the first guild, in      *)
(* enumeration order, whose channel map has a non-empty webhook for the    *)
(* channel id, and none when no guild has one (also when the guild map or  *)
(* a guild's channel map is absent); and no step changes the               *)
(* configuration.                                                          *)
C15_FirstConfiguredWebhook ==
  /\ [](\A c \in Calls :
          IsSend(c) /\ "resolveWebhookUrl" \in call[c].invoked =>
            LET id == call[c].channelId
                Configured(g) ==
                  /\ "channels" \in DOMAIN g
                  /\ id \in DOMAIN g.channels
                  /\ g.channels[id].webhook \notin {undefined, <<>>}
                hits == IF "guilds" \in DOMAIN cfg
                        THEN { i \in 1..Len(cfg.guilds) : Configured(cfg.guilds[i]) }
                        ELSE {}
            IN IF hits = {} THEN call[c].webhookUrl = undefined
               ELSE \E i \in hits :
                      /\ \A j \in hits : i <= j
                      /\ call[c].webhookUrl = cfg.guilds[i].channels[id].webhook)
  /\ [][cfg' = cfg]_vars

(* a send to channel 7 has posted to the webhook of the first guild that   *)
(* configures one, although an earlier guild has an empty entry for the    *)
(* channel and a later guild another webhook                               *)
C15_Witness ==
  \E c \in Calls :
    /\ IsSend(c) /\ cfg = CfgGuilds
    /\ call[c].channelId = <<"7">>
    /\ call[c].webhookUrl = Hook1
    /\ PostsOf(c) # <<>>
    /\ posts[PostsOf(c)[1]].url.base = Hook1

(* C16: the parse of a profile gives each of name, emoji, creature, vibe   *)
(* and avatar the trimmed value of the last line that has the bulleted     *)
(* bold-label shape with that label (in any letter case), lines of another *)
(* shape or label changing nothing; and it gives no identity at all, never *)
(* a partial one, when the final name is missing or empty, whatever the    *)
(* other fields are.                                                       *)
C16_LastFieldLineWins ==
  \A c \in Calls :
    call[c].op = "parseIdentityMd" /\ call[c].pc = "done" =>
      LET content == call[c].ctx.content
          Label(i) == LET m == MatchLine(content[i]) IN
                      IF m.matched /\ Len(m.field) = 1
                      THEN toLowerCase(m.field[1]) ELSE "?"
          Final(f) ==
            LET at == { i \in 1..Len(content) : Label(i) = f } IN
            IF at = {} THEN undefined
            ELSE LET last == CHOOSE i \in at : \A j \in at : j <= i IN
                 Trim(MatchLine(content[last]).value)
      IN
      /\ call[c].outcome.status = "returned"
      /\ IF Final("name") \in {undefined, <<>>}
         THEN call[c].outcome.value = null
         ELSE call[c].outcome.value =
                [name |-> Final("name"), emoji |-> Final("emoji"),
                 creature |-> Final("creature"), vibe |-> Final("vibe"),
                 avatar |-> Final("avatar")]

(* a profile with two name lines around a line of an unknown label has     *)
(* parsed to the later name                                                *)
C16_Witness ==
  \E c \in Calls :
    /\ call[c].op = "parseIdentityMd" /\ call[c].pc = "done"
    /\ call[c].ctx.content =
         << <<"-", " ", "**", "Name", ":**", " ", "Ember">>,
            <<"-", " ", "**", "Role", ":**", " ", "scout">>,
            <<"-", "**", "NAME", ":**", "Bolt", " ">> >>
    /\ call[c].outcome.value # null
    /\ call[c].outcome.value.name = <<"Bolt">>

(* C17: the display identity of an agent identity has as its name the      *)
(* emoji, one space and the name when there is an emoji, and the name      *)
(* alone otherwise, and as its avatar the override when one is supplied,   *)
(* else the profile's avatar, else none; and the payload of a webhook post *)
(* has the display name and the avatar of the identity it was given        *)
(* exactly when they are present.                                          *)
C17_DisplayIdentity ==
  /\ \A c \in Calls :
       call[c].op = "toWebhookIdentity" /\ call[c].pc = "done" =>
         LET identity == call[c].ctx.identity
             override == call[c].ctx.avatarUrl
             display == call[c].outcome.value
         IN
         /\ display.username =
              IF identity.emoji \in {undefined, <<>>} THEN identity.name
              ELSE identity.emoji \o <<" ">> \o identity.name
         /\ override # undefined => display.avatarUrl = override
         /\ override = undefined => display.avatarUrl = identity.avatar
  /\ \A p \in 1..Len(posts) :
       LET given == call[posts[p].call].opts.identity
           Present(f) == given # null /\ given[f] \notin {undefined, <<>>}
       IN
       /\ posts[p].body.username =
            IF Present("username") THEN given.username ELSE undefined
       /\ posts[p].body.avatar_url =
            IF Present("avatarUrl") THEN given.avatarUrl ELSE undefined

(* the display identity of a profile with an emoji and an avatar, built    *)
(* with an avatar override                                                 *)
C17_Witness ==
  \E c \in Calls :
    /\ call[c].op = "toWebhookIdentity" /\ call[c].pc = "done"
    /\ call[c].ctx.identity.avatar = <<"https://cdn/a.png">>
    /\ call[c].outcome.value =
         [username |-> <<"<fire>", " ", "Ember">>,
          avatarUrl |-> <<"https://", "cdn/override.png">>]

C19_EmptyResultGuardUnreachable ==
  \A c \in Calls :
    call[c].transport = "text" /\ Trim(call[c].text) # <<>> =>
      LET P == PostsOf(c) IN
      /\ call[c].chunks # <<>>
      /\ \/ P # <<>>
         \/ /\ ~IsValidUrl(call[c].opts.webhookUrl)
            /\ call[c].outcome = [status |-> "threw", error |-> InvalidUrlError]
      /\ call[c].pc = "done" =>
           \/ /\ call[c].outcome.status = "threw"
              /\ call[c].outcome.error # EmptyResultError
              /\ call[c].outcome.error # ValidationError
              /\ P # <<>> => posts[P[Len(P)]].status \in {"rejected", "lost"}
           \/ /\ call[c].outcome.status = "returned"
              /\ Len(P) = Len(call[c].chunks)
              /\ call[c].lastResult # null
              /\ call[c].outcome.value.messageId = MessageId(P[Len(P)])

(* the chunker returned no chunk for a text, and the send has returned     *)
(* after posting the whole text as its one chunk                           *)
C19_Witness ==
  \E c \in Calls :
    /\ call[c].transport = "text"
    /\ call[c].chunks = << <<"a", " ", "b">> >>
    /\ call[c].outcome.status = "returned"
    /\ Len(PostsOf(c)) = 1
    /\ posts[PostsOf(c)[1]].body.content = <<"a", " ", "b">>

(* C20: on the webhook path the orchestrator hands the transport the       *)
(* resolved endpoint and the resolved identity and nothing else: no thread *)
(* target and no embeds, and nothing of the context's reply target or      *)
(* account selector; so every post of the send goes to that endpoint       *)
(* without a thread parameter, carries the same identity and no embeds.    *)
C20_OnlyEndpointAndIdentity ==
  \A c \in Calls :
    IsSend(c) /\ UsedWebhook(c) =>
      LET identity == resolveWebhookIdentity(call[c].ctx.agentId, undefined,
                                             undefined, home)
          P == PostsOf(c)
      IN
      /\ identity # null
      /\ call[c].opts =
           [webhookUrl |-> call[c].webhookUrl, identity |-> identity,
            threadId |-> undefined, embeds |-> undefined]
      /\ \A i \in 1..Len(P) :
           /\ posts[P[i]].url =
                [base |-> call[c].webhookUrl, wait |-> <<"true">>,
                 thread_id |-> undefined]
           /\ DOMAIN posts[P[i]].body =
                {"content", "username", "avatar_url", "embeds"}
           /\ posts[P[i]].body.username = identity.username
           /\ posts[P[i]].body.avatar_url = identity.avatarUrl
           /\ posts[P[i]].body.embeds = undefined

(* a media send with a reply target and an account selector was delivered  *)
(* by webhook in a file post and a follow-up                               *)
C20_Witness ==
  \E c \in Calls :
    /\ call[c].op = "sendMedia" /\ UsedWebhook(c)
    /\ call[c].ctx.replyToId = <<"r1">>
    /\ call[c].ctx.accountId = <<"acct">>
    /\ call[c].outcome.status = "returned"
    /\ Len(PostsOf(c)) = 2

====
